---- MODULE Spec2Model ----
(***************************************************************************)
(* The crawl frontier of EcommerceCrawler (src/src/main.ts): the URL       *)
(* normalizer, the listing classifier, the processedUrls set, the two      *)
(* route handlers and the PlaywrightCrawler that drives them.              *)
(*                                                                         *)
(* Strings are the program's strings.  A link handed to                    *)
(* transformRequestFunction is a record [kind, text]: text is req.url and  *)
(* kind is the case of the URL parser that `new URL(text, base)` takes.    *)
(* A pattern is a record [src, valid, lang]: src is the pattern string,    *)
(* valid says whether `new RegExp(src)` constructs, and lang is the set of *)
(* URLs of the universe that `regex.test` accepts.                         *)
(***************************************************************************)
EXTENDS Integers, Sequences, FiniteSets, TLC

\* ------------------------------------------------------------------ bounds
\* links one listing page hands to transformRequestFunction
MaxLinks == 2
\* times the engine re-queues a request whose handler or fetch failed
MaxRetries == 1
\* page fetches that fail in one run
MaxFetchFailures == 1

\* ------------------------------------------------------- program constants
\* constructor: maxPages: 1000
DefaultMaxPages == 1000
\* PlaywrightCrawler option maxConcurrency: 10
maxConcurrency == 10

\* ------------------------------------------------------------ URL universe
NoValue == "undefined"
Origin == "https://www.ajio.com"
Seed1 == Origin \o "/"
Seed2 == Origin \o "/men"
Cat1 == Origin \o "/s/c/1"
JsVoid == "javascript:void(0)"
\* the value normalizeUrl returns from its catch branch
Sentinel == ""

\* every value normalizeUrl can return in this universe
NormUrls == {Seed1, Cat1, JsVoid, Sentinel}

\* req.url values the engine's link enumeration hands to the transform
RawLinks ==
  { [kind |-> "relative", text |-> "/s/c/1"],
    [kind |-> "absolute", text |-> Cat1],
    [kind |-> "absolute", text |-> Seed1],
    [kind |-> "opaque", text |-> JsVoid],
    [kind |-> "malformed", text |-> "http://["] }

\* --------------------------------------------------------------- patterns
PMyntra == [src |-> "^https://www.myntra.com/(?:[a-z0-9-]+)$", valid |-> TRUE,
            lang |-> {}]
PAjio == [src |-> "^https://www.ajio.com/.*/c/[0-9]+$", valid |-> TRUE,
          lang |-> {Cat1}]
PVoid == [src |-> "void", valid |-> TRUE, lang |-> {JsVoid}]
PEmpty == [src |-> "^$", valid |-> TRUE, lang |-> {Sentinel}]
PBad == [src |-> "(", valid |-> FALSE, lang |-> {}]
PHome == [src |-> "^https://www.ajio.com/$", valid |-> TRUE, lang |-> {Seed1}]
PBuy == [src |-> "/buy/", valid |-> TRUE, lang |-> {}]
PSlashP == [src |-> "/p/", valid |-> TRUE, lang |-> {}]
PItem == [src |-> "/item/", valid |-> TRUE, lang |-> {}]
PProductsId == [src |-> "products?id=", valid |-> TRUE, lang |-> {}]

\* the configurations a run is started with
PatternLists ==
  { <<PMyntra, PAjio>>, <<PAjio, PBad>>, <<PAjio, PVoid>>, <<PEmpty, PMyntra>>,
    <<PHome, PMyntra>>, <<>> }
\* productUrlPatterns of the example configuration
ExampleProductPatterns == <<PBuy, PSlashP, PItem, PProductsId>>
\* productUrlPatterns a crawler can be configured with
ProductPatternLists == { ExampleProductPatterns, <<PAjio, PHome>>, <<>> }
StartUrlLists == { <<>>, <<Seed1>>, <<Seed1, Seed2>> }
\* maxPages as the caller gives it: <<>> when the option is absent
MaxPagesOptions == { <<>>, <<1>> }
\* the budget of spec scenario C
ZeroPagesOptions == { <<0>> }

\* resolved hrefs of anchors inside product cards
Product1 == Origin \o "/p/1"
Product2 == Origin \o "/p/2"

\* what document.querySelectorAll(".rilrtl-products-list__item") finds on a
\* rendered page, in document order: each card is the sequence of its <a>
\* elements, an element given by its href property, NoValue when the
\* element has no href attribute
CardLists ==
  { <<>>,
    << <<>>, <<NoValue, Product1, Product2>> >>,
    << <<Product1>>, <<Product1>> >> }

VARIABLES
  config,         \* this.config, after the constructor
  processedUrls,  \* this.processedUrls
  pageCount,      \* this.pageCount
  pc,             \* position of run(): "constructed", "crawling", "returned"
  queue,          \* requests waiting in the engine's request queue
  running,        \* default-handler invocations in flight
  handled,        \* requests the engine has finished (handled or failed)
  fetched,        \* pages the engine has fetched and given to a handler
  enqueuedLog,    \* every request handed to the engine, in order
  claimLog,       \* per URL: how often the transform returned its request, and
                  \* the pages on which the transform skipped it as processed
  fetchFailures,  \* page fetches that have failed
  extracted,      \* whether page.evaluate has returned, and the cards and the
                  \* products of its latest call
  dataset,        \* records pushed to the default Dataset
  lastFailure,    \* the latest page whose fetch or handler failed
  zeroUnlimited   \* whether the engine reads maxRequestsPerCrawl = 0 as "no limit"

vars == << config, processedUrls, pageCount, pc, queue, running, handled,
           fetched, enqueuedLog, claimLog, extracted, dataset, lastFailure,
           zeroUnlimited, fetchFailures >>

\* ------------------------------------------------------------ pure helpers
\* the origin `new URL(base)` gives a relative reference
OriginOf(baseUrl) == IF baseUrl \in {Seed1, Seed2} THEN Origin ELSE Sentinel

\* new URL(url, baseUrl).href, or "throw" when the parser rejects the input
UrlHref(link, baseUrl) ==
  CASE link.kind = "absolute" -> link.text
    [] link.kind = "relative" -> OriginOf(baseUrl) \o link.text
    [] link.kind = "opaque" -> link.text
    [] OTHER -> "throw"

normalizeUrl(link, baseUrl) ==
  LET href == UrlHref(link, baseUrl)
  IN IF href = "throw" THEN Sentinel ELSE href

\* regex.test(url) for a pattern that constructed
RegExpTest(pattern, url) == url \in pattern.lang

\* patterns.every(...) from index i on
RECURSIVE EveryFrom(_, _, _)
EveryFrom(url, patterns, i) ==
  IF i > Len(patterns) THEN "true"
  ELSE IF ~patterns[i].valid THEN "throw"
  ELSE IF ~RegExpTest(patterns[i], url) THEN "false"
  ELSE EveryFrom(url, patterns, i + 1)

\* patterns.some(...) from index i on: "true", "false", or "throw" when
\* `new RegExp(pattern)` fails before any earlier pattern matched
RECURSIVE SomeFrom(_, _, _)
SomeFrom(url, patterns, i) ==
  IF i > Len(patterns) THEN "false"
  ELSE IF ~patterns[i].valid THEN "throw"
  ELSE IF RegExpTest(patterns[i], url) THEN "true"
  ELSE SomeFrom(url, patterns, i + 1)

isProductUrl(url, patterns) == SomeFrom(url, patterns, 1)

isListingUrl(url, patterns) == SomeFrom(url, patterns, 1)

\* a has() that never finds the URL
HasProcessedNever(processed, url) == FALSE

\* this.processedUrls.has(url)
HasProcessed(processed, url) == url \in processed

\* an add() that is left out
AddProcessedOmitted(processed, url) == processed

\* this.processedUrls.add(url)
AddProcessed(processed, url) == processed \cup {url}

\* a transform that records a URL as processed the first time it sees it,
\* before the classifier is asked
transformRecordsFirst(processed, patterns, link, baseUrl) ==
  LET url == normalizeUrl(link, baseUrl)
      listing == IF HasProcessed(processed, url) THEN "false"
                 ELSE isListingUrl(url, patterns)
  IN [ url |-> url,
       ret |-> IF listing = "true" THEN "req" ELSE listing,
       processed |-> AddProcessed(processed, url) ]

\* The decision of transformRequestFunction on one link: what it returns
\* ("req", "false" or "throw"), the normalized URL and the set afterwards.
\* has() is tested first and short-circuits the classifier.
transformRequestFunction(processed, patterns, link, baseUrl) ==
  LET url == normalizeUrl(link, baseUrl)
      listing == IF HasProcessed(processed, url) THEN "false"
                 ELSE isListingUrl(url, patterns)
  IN [ url |-> url,
       ret |-> IF listing = "true" THEN "req" ELSE listing,
       processed |-> IF listing = "true" THEN AddProcessed(processed, url)
                     ELSE processed ]

\* the card's first <a> element, with or without an href attribute
FirstAnchor(card) == IF card = <<>> THEN NoValue ELSE Head(card)

\* card.querySelector("a[href]"): the href of the first <a> element that
\* has the attribute, NoValue when the selector finds none
RECURSIVE linkElement(_)
linkElement(card) ==
  IF card = <<>> THEN NoValue
  ELSE IF Head(card) # NoValue THEN Head(card)
  ELSE linkElement(Tail(card))

\* the callback of page.evaluate: one record per card,
\* { link: linkElement?.href || null }
PageEvaluate(productCards) ==
  [ i \in 1..Len(productCards) |->
      [ link |-> IF linkElement(productCards[i]) \in {NoValue, ""}
                 THEN "null"
                 ELSE linkElement(productCards[i]) ] ]

\* enqueueLinks without a label: the links go to the default handler
EnqueueUnlabeled == "default"

\* label option of enqueueLinks
EnqueueLabel == "detail"

\* constructor: { maxPages: 1000, ...config }
Construct(startUrls, patterns, productPatterns, maxPages) ==
  [ startUrls |-> startUrls,
    productListingUrlPatterns |-> patterns,
    productUrlPatterns |-> productPatterns,
    maxPages |-> IF maxPages = <<>> THEN DefaultMaxPages ELSE maxPages[1] ]

\* maxRequestsPerCrawl: this.config.maxPages! * 2
maxRequestsPerCrawl == config.maxPages * 2

\* the engine opens no further page once this holds
LimitReached ==
  IF maxRequestsPerCrawl = 0 THEN ~zeroUnlimited
  ELSE handled >= maxRequestsPerCrawl

Range(s) == { s[i] : i \in 1..Len(s) }

Request(url, label) == [url |-> url, label |-> label, retryCount |-> 0]

\* requests of a batch the request queue has not seen before
RECURSIVE Fresh(_, _)
Fresh(batch, seen) ==
  IF batch = <<>> THEN {}
  ELSE IF Head(batch) \in seen THEN Fresh(Tail(batch), seen)
  ELSE {Request(Head(batch), EnqueueLabel)}
         \cup Fresh(Tail(batch), seen \cup {Head(batch)})

RECURSIVE LogEntries(_, _)
LogEntries(batch, page) ==
  IF batch = <<>> THEN <<>>
  ELSE <<[url |-> Head(batch), label |-> EnqueueLabel, from |-> page]>>
         \o LogEntries(Tail(batch), page)

RECURSIVE SeedEntries(_)
SeedEntries(urls) ==
  IF urls = <<>> THEN <<>>
  ELSE <<[url |-> Head(urls), label |-> "default", from |-> "run"]>>
         \o SeedEntries(Tail(urls))

\* no page has failed yet
NoFailure == [label |-> "none", claimed |-> {}]

\* ------------------------------------------------------------------- Init
\* the state after `new EcommerceCrawler(config)`, productUrlPatterns drawn
\* from productLists and maxPages from options
Constructed(productLists, options) ==
  /\ \E s \in StartUrlLists, p \in PatternLists, d \in productLists, m \in options :
       config = Construct(s, p, d, m)
  /\ zeroUnlimited \in (IF maxRequestsPerCrawl = 0 THEN BOOLEAN ELSE {TRUE})
  /\ processedUrls = {}
  /\ pageCount = 0
  /\ pc = "constructed"
  /\ queue = {}
  /\ running = {}
  /\ handled = 0
  /\ fetched = 0
  /\ enqueuedLog = <<>>
  /\ claimLog = [u \in NormUrls |-> [returned |-> 0, skippedOn |-> {}]]
  /\ fetchFailures = 0
  /\ extracted = [ran |-> FALSE, cards |-> <<>>, products |-> <<>>]
  /\ dataset = {}
  /\ lastFailure = NoFailure

Init == Constructed({ExampleProductPatterns}, MaxPagesOptions)

\* a crawler constructed with any of the product pattern lists
InitClassified == Constructed(ProductPatternLists, MaxPagesOptions)

\* a crawler constructed with maxPages: 0
InitZeroPages == Constructed({ExampleProductPatterns}, ZeroPagesOptions)

\* ---------------------------------------------------------------- actions
\* run(): crawler.run(this.config.startUrls) hands the seeds to the engine
RunStart ==
  /\ pc = "constructed"
  /\ pc' = "crawling"
  /\ queue' = { Request(u, "default") : u \in Range(config.startUrls) }
  /\ enqueuedLog' = enqueuedLog \o SeedEntries(config.startUrls)
  /\ UNCHANGED << config, processedUrls, pageCount, running, handled, fetched,
                  claimLog, extracted, dataset, lastFailure, zeroUnlimited, fetchFailures >>

\* URLs the engine's request queue has accepted so far
known == Range(config.startUrls) \cup { enqueuedLog[i].url : i \in 1..Len(enqueuedLog) }

\* the engine may open another page
CanStart ==
  /\ pc = "crawling"
  /\ ~LimitReached
  /\ Cardinality(running) < maxConcurrency

\* what the engine does with a request whose fetch or handler failed:
\* re-queue it while retries remain, else count it as finished
AfterFailure(req, q) ==
  IF req.retryCount < MaxRetries
  THEN [queue |-> q \cup {[req EXCEPT !.retryCount = @ + 1]}, handled |-> handled]
  ELSE [queue |-> q, handled |-> handled + 1]

\* a failed page: its handler label and the URLs its handler had claimed by then
Failure(req, claimed) == [label |-> req.label, claimed |-> claimed]

\* the engine opens a page and the fetch or render fails: no handler runs
FetchFails(req) ==
  /\ CanStart
  /\ req \in queue
  /\ fetchFailures < MaxFetchFailures
  /\ fetchFailures' = fetchFailures + 1
  /\ LET after == AfterFailure(req, queue \ {req})
     IN /\ queue' = after.queue
        /\ handled' = after.handled
  /\ lastFailure' = Failure(req, {})
  /\ UNCHANGED << config, processedUrls, pageCount, pc, running, fetched,
                  enqueuedLog, claimLog, extracted, dataset, zeroUnlimited >>

\* the engine opens an unlabeled page and calls the default handler;
\* request.loadedUrl is the page's URL or undefined
StartDefault(req, loaded) ==
  /\ CanStart
  /\ req \in queue
  /\ req.label = "default"
  /\ queue' = queue \ {req}
  /\ fetched' = fetched + 1
  /\ running' = running \cup {[req |-> req, baseUrl |-> loaded, n |-> 0, batch |-> <<>>]}
  /\ UNCHANGED << config, processedUrls, pageCount, pc, handled,
                  enqueuedLog, claimLog, extracted, dataset, lastFailure,
                  zeroUnlimited, fetchFailures >>

\* default handler: `if (!baseUrl) return;`
DefaultReturnsEarly(t) ==
  /\ t \in running
  /\ t.req.label = "default"
  /\ t.baseUrl = NoValue
  /\ running' = running \ {t}
  /\ handled' = handled + 1
  /\ UNCHANGED << config, processedUrls, pageCount, pc, queue, fetched,
                  enqueuedLog, claimLog, extracted, dataset, lastFailure,
                  zeroUnlimited, fetchFailures >>

\* default handler, inside enqueueLinks: transformRequestFunction on the
\* page's next link, when it returns (the request or false)
TransformLink(t, link) ==
  /\ t \in running
  /\ t.req.label = "default"
  /\ t.baseUrl # NoValue
  /\ t.n < MaxLinks
  /\ LET d == transformRequestFunction(processedUrls,
                  config.productListingUrlPatterns, link, t.baseUrl)
     IN /\ d.ret # "throw"
        /\ processedUrls' = d.processed
        /\ running' = (running \ {t}) \cup
             {[t EXCEPT !.n = @ + 1,
                        !.batch = IF d.ret = "req" THEN Append(@, d.url) ELSE @]}
        /\ claimLog' =
             IF d.ret = "req"
             THEN [claimLog EXCEPT ![d.url].returned = @ + 1]
             ELSE IF HasProcessed(processedUrls, d.url)
             THEN [claimLog EXCEPT ![d.url].skippedOn = @ \cup {t.req.url}]
             ELSE claimLog
  /\ UNCHANGED << config, pageCount, pc, queue, handled, fetched,
                  enqueuedLog, extracted, dataset, lastFailure, zeroUnlimited, fetchFailures >>

\* default handler, inside enqueueLinks: transformRequestFunction throws
\* (new RegExp on an invalid pattern); enqueueLinks rejects with nothing
\* added to the queue, the handler rejects and the engine takes the failure
TransformThrows(t, link) ==
  /\ t \in running
  /\ t.req.label = "default"
  /\ t.baseUrl # NoValue
  /\ t.n < MaxLinks
  /\ transformRequestFunction(processedUrls, config.productListingUrlPatterns,
                              link, t.baseUrl).ret = "throw"
  /\ running' = running \ {t}
  /\ LET after == AfterFailure(t.req, queue)
     IN /\ queue' = after.queue
        /\ handled' = after.handled
  /\ lastFailure' = Failure(t.req, Range(t.batch))
  /\ UNCHANGED << config, processedUrls, pageCount, pc, fetched,
                  enqueuedLog, claimLog, extracted, dataset, zeroUnlimited, fetchFailures >>

\* default handler: enqueueLinks resolves; the requests the transform
\* returned are handed to the request queue, which drops the URLs it knows
EnqueueLinksDone(t) ==
  /\ t \in running
  /\ t.req.label = "default"
  /\ t.baseUrl # NoValue
  /\ running' = running \ {t}
  /\ queue' = queue \cup Fresh(t.batch, known)
  /\ enqueuedLog' = enqueuedLog \o LogEntries(t.batch, t.req.url)
  /\ handled' = handled + 1
  /\ UNCHANGED << config, processedUrls, pageCount, pc, fetched, claimLog,
                  extracted, dataset, lastFailure, zeroUnlimited, fetchFailures >>

\* a detail handler that also expands links: it claims a URL and hands
\* its request to the engine
DetailExtractsAndEnqueues(req, productCards) ==
  /\ CanStart
  /\ req \in queue
  /\ req.label = "detail"
  /\ queue' = (queue \ {req}) \cup {Request(Seed2, EnqueueLabel)}
  /\ processedUrls' = processedUrls \cup {Seed2}
  /\ fetched' = fetched + 1
  /\ extracted' = [ran |-> TRUE, cards |-> productCards,
                   products |-> PageEvaluate(productCards)]
  /\ handled' = handled + 1
  /\ UNCHANGED << config, pageCount, pc, running,
                  enqueuedLog, claimLog, dataset, lastFailure, zeroUnlimited, fetchFailures >>

\* the engine opens a "detail" page and calls the detail handler:
\* page.evaluate returns one record per product card, which are logged
DetailExtracts(req, productCards) ==
  /\ CanStart
  /\ req \in queue
  /\ req.label = "detail"
  /\ queue' = queue \ {req}
  /\ fetched' = fetched + 1
  /\ extracted' = [ran |-> TRUE, cards |-> productCards,
                   products |-> PageEvaluate(productCards)]
  /\ handled' = handled + 1
  /\ UNCHANGED << config, processedUrls, pageCount, pc, running,
                  enqueuedLog, claimLog, dataset, lastFailure, zeroUnlimited, fetchFailures >>

\* the engine opens a "detail" page and calls the detail handler:
\* page.evaluate throws, the catch logs the error and the handler returns
DetailCatches(req) ==
  /\ CanStart
  /\ req \in queue
  /\ req.label = "detail"
  /\ queue' = queue \ {req}
  /\ fetched' = fetched + 1
  /\ lastFailure' = Failure(req, {})
  /\ handled' = handled + 1
  /\ UNCHANGED << config, processedUrls, pageCount, pc, running,
                  enqueuedLog, claimLog, extracted, dataset, zeroUnlimited, fetchFailures >>

\* a crawl that resolves only on an empty queue
CrawlResolvesOnEmptyOnly == running = {} /\ queue = {}

\* `await crawler.run(...)` resolves: nothing in flight, and the queue is
\* empty or the engine's request limit is reached
CrawlResolves == running = {} /\ (queue = {} \/ LimitReached)

\* run(): the crawl has resolved; `return Dataset.open()`
RunReturns ==
  /\ pc = "crawling"
  /\ CrawlResolves
  /\ pc' = "returned"
  /\ UNCHANGED << config, processedUrls, pageCount, queue, running,
                  handled, fetched, enqueuedLog, claimLog, extracted, dataset,
                  lastFailure, zeroUnlimited, fetchFailures >>

\* run() called again on the same instance after it returned: a new router
\* and a new PlaywrightCrawler, the fields of `this` as the last run left
\* them.  The seeds go to the engine again; whether its default request
\* queue is a new one or the one that already finished them is the
\* engine's choice.
RunAgain(freshQueue) ==
  /\ pc = "returned"
  /\ pc' = "crawling"
  /\ queue' = IF freshQueue
              THEN { Request(u, "default") : u \in Range(config.startUrls) }
              ELSE {}
  /\ enqueuedLog' = SeedEntries(config.startUrls)
  /\ claimLog' = [u \in NormUrls |-> [returned |-> 0, skippedOn |-> {}]]
  /\ handled' = 0
  /\ fetched' = 0
  /\ fetchFailures' = 0
  /\ extracted' = [ran |-> FALSE, cards |-> <<>>, products |-> <<>>]
  /\ lastFailure' = NoFailure
  /\ UNCHANGED << config, processedUrls, pageCount, running, dataset, zeroUnlimited >>

Next ==
  \/ RunStart
  \/ \E req \in queue : FetchFails(req)
  \/ \E req \in queue : \E loaded \in {req.url, NoValue} : StartDefault(req, loaded)
  \/ \E t \in running : DefaultReturnsEarly(t)
  \/ \E t \in running : \E link \in RawLinks : TransformLink(t, link)
  \/ \E t \in running : \E link \in RawLinks : TransformThrows(t, link)
  \/ \E t \in running : EnqueueLinksDone(t)
  \/ \E req \in queue : \E productCards \in CardLists : DetailExtracts(req, productCards)
  \/ \E req \in queue : DetailCatches(req)
  \/ RunReturns

Spec == Init /\ [][Next]_vars

ZeroPagesSpec == InitZeroPages /\ [][Next]_vars

ClassifiedSpec == InitClassified /\ [][Next]_vars

\* one instance whose run() is called again each time it has returned
NextRepeated ==
  \/ Next
  \/ \E freshQueue \in BOOLEAN : RunAgain(freshQueue)

RepeatedSpec == Init /\ [][NextRepeated]_vars

\* the pool keeps running whatever task is runnable
LiveSpec == Init /\ [][Next]_vars /\ WF_vars(Next)

\* ------------------------------------------------------- claim vocabulary
\* positions of the log at which a handler (not run's seeding) handed u over
HandlerEntries(u) ==
  { i \in 1..Len(enqueuedLog) : enqueuedLog[i].from # "run" /\ enqueuedLog[i].url = u }

\* positions of in-flight batches holding u: returned by the transform,
\* not yet handed to the request queue
PendingEntries(u) ==
  { <<t, i>> \in running \X (1..MaxLinks) : i <= Len(t.batch) /\ t.batch[i] = u }

\* the configuration errors: an empty seed list, a pattern that is no
\* regular expression
ConfigError ==
  \/ config.startUrls = <<>>
  \/ \E i \in 1..Len(config.productListingUrlPatterns) :
       ~config.productListingUrlPatterns[i].valid

\* every pattern of the list is a regular expression
AllValid(patterns) == \A i \in 1..Len(patterns) : patterns[i].valid

\* some pattern of the list matches the URL
AnyMatch(url, patterns) ==
  \E i \in 1..Len(patterns) : RegExpTest(patterns[i], url)

\* URLs a handler has decided to enqueue, handed over or about to be
HandlerUrls ==
  { u \in NormUrls : HandlerEntries(u) # {} \/ PendingEntries(u) # {} }

\* ------------------------------------------------------------------ claims
\* C1: within one run each normalized URL is handed to the engine by the
\* listing handlers at most once, whatever pages discover it and however
\* their handlers interleave.
C1_EnqueuedAtMostOnce ==
  \A u \in NormUrls :
    Cardinality(HandlerEntries(u)) + Cardinality(PendingEntries(u)) <= 1

\* C1 witness: a URL handed over from one page was discovered again on a
\* different page and skipped there.
C1_Witness ==
  \E u \in NormUrls : \E i \in HandlerEntries(u) :
    \E p \in claimLog[u].skippedOn : p # enqueuedLog[i].from

\* C2: check and insert are one step: a URL is claimed exactly once however
\* many handlers discover it; every skip follows the one successful claim,
\* and the set holds exactly the claimed URLs.
C2_ExactlyOneClaim ==
  \A u \in NormUrls :
    /\ claimLog[u].returned <= 1
    /\ claimLog[u].skippedOn # {} => claimLog[u].returned = 1
    /\ u \in processedUrls <=> claimLog[u].returned = 1

\* C2 witness: two handlers in flight at once, one holding the claim on a
\* URL, the other having skipped the same URL.
C2_Witness ==
  \E t1 \in running, t2 \in running, u \in NormUrls :
    /\ t1 # t2
    /\ u \in Range(t1.batch)
    /\ t2.req.url \in claimLog[u].skippedOn
    /\ claimLog[u].returned = 1

\* C3: once maxPages requests have been enqueued in the run, no crawl step
\* enqueues another.
C3_BudgetMonotone ==
  [][ (pc = "crawling" /\ Len(enqueuedLog) >= config.maxPages)
        => enqueuedLog' = enqueuedLog ]_vars

\* C4: the pages fetched in a run, listing and detail together, never
\* exceed maxPages.
C4_FetchedWithinMaxPages == fetched <= config.maxPages

\* C5: with maxPages = 0 nothing is ever enqueued, seeds included.
C5_ZeroBudgetEnqueuesNothing == config.maxPages = 0 => enqueuedLog = <<>>

\* C6: every URL a listing handler enqueues or records as visited is a
\* successful normalization that matches a configured listing pattern.
C6_OnlyNormalizedListingUrls ==
  \A u \in HandlerUrls \cup processedUrls :
    /\ u # Sentinel
    /\ isListingUrl(u, config.productListingUrlPatterns) = "true"

\* C7: a javascript: link and an unparsable link both normalize to the
\* sentinel and are then never classified, claimed or enqueued: so
\* "javascript:void(0)" is never a visited URL or a claimed one, and
\* neither it nor the sentinel is ever handed to the engine.
C7_UnsupportedSchemeNeverEnqueued ==
  /\ JsVoid \notin processedUrls
  /\ claimLog[JsVoid].returned = 0
  /\ \A u \in {JsVoid, Sentinel} : HandlerEntries(u) = {}

\* C8: under a fair pool every run returns, and it returns only with no
\* handler in flight and the queue exhausted or the request limit reached.
C8_RunCompletes ==
  /\ <>(pc = "returned")
  /\ [](pc = "returned" => running = {} /\ (queue = {} \/ LimitReached))

\* C8 witness: a run that returned after a page failure, stopped by the
\* request limit with requests still queued.
C8_Witness ==
  /\ pc = "returned"
  /\ lastFailure # NoFailure
  /\ queue # {}

\* C9: when run returns, the records the detail handler extracted are in
\* the output sink.
C9_ExtractedRecordsEmitted ==
  (pc = "returned" /\ extracted.ran) => Range(extracted.products) \subseteq dataset

\* C10: a page failure leaves no trace: it aborts nothing, hands nothing
\* to the engine, emits nothing, and the visited set holds none of the
\* URLs the failed handler had claimed.
C10_FailureLeavesNoTrace ==
  [][ lastFailure' # lastFailure =>
        /\ pc' = pc
        /\ enqueuedLog' = enqueuedLog
        /\ dataset' = dataset
        /\ lastFailure'.claimed \cap processedUrls' = {} ]_vars

\* C11: the sentinel normalizeUrl returns for an unparsable link is never
\* treated as a URL, whatever the listing patterns: no transform call
\* classifies it as listing and returns its request, it is never in the
\* visited set, and no handler holds it for or hands it to the engine.
C11_SentinelNeverAUrl ==
  /\ claimLog[Sentinel].returned = 0
  /\ Sentinel \notin processedUrls
  /\ Sentinel \notin HandlerUrls

\* C12: every URL handed to the engine, by run's seeding or by a handler,
\* is in the visited set from the moment it is scheduled, and so no link
\* that equals a seed URL is handed to the engine by a handler.
C12_ScheduledUrlsAreVisited ==
  /\ \A i \in 1..Len(enqueuedLog) : enqueuedLog[i].url \in processedUrls
  /\ \A u \in Range(config.startUrls) : HandlerEntries(u) = {}

\* C13: a step in which the engine gives a "detail" page to the detail
\* handler takes that one request from the queue and adds none, and leaves
\* the visited set, the page counter and the log of enqueued requests as
\* they were, whether page.evaluate returns or throws.
C13_DetailHandlerFrame ==
  [][ \A req \in queue :
        (req.label = "detail" /\ req \notin queue' /\ fetched' = fetched + 1)
          => /\ processedUrls' = processedUrls
             /\ pageCount' = pageCount
             /\ queue' = queue \ {req}
             /\ enqueuedLog' = enqueuedLog ]_vars

\* C13 witness: the detail handler has run both ways, page.evaluate
\* returning on one page and throwing on another (no fetch has failed, so
\* the failure is the handler's).
C13_Witness ==
  /\ extracted.ran
  /\ lastFailure.label = "detail"
  /\ fetchFailures = 0

\* C14: the visited set is empty whenever a run starts and no step ever
\* removes an entry from it, so successive calls of run() on one instance
\* share no visited-set state.
C14_VisitedSetPerRun ==
  [][ /\ processedUrls \subseteq processedUrls'
      /\ (pc # "crawling" /\ pc' = "crawling") => processedUrls' = {} ]_vars

\* C15: a configuration error fails the run before any crawling: with an
\* empty seed list or an invalid listing pattern no URL is ever handed to
\* the engine, no page is fetched, no page fails on the pattern, and run
\* does not return normally.
C15_ConfigErrorsFailFast ==
  ConfigError =>
    /\ enqueuedLog = <<>>
    /\ fetched = 0
    /\ lastFailure = NoFailure
    /\ pc # "returned"

\* C16: what page.evaluate returns on a detail page has exactly one record
\* per product card, in document order, and each record's link is the href
\* of the first anchor of its card that carries one, null when the card has
\* none; a page without cards gives the empty sequence, and equal links
\* are kept.
C16_OneRecordPerCard ==
  extracted.ran =>
    /\ Len(extracted.products) = Len(extracted.cards)
    /\ \A i \in 1..Len(extracted.cards) :
         LET hrefs == SelectSeq(extracted.cards[i], LAMBDA a : a # NoValue)
         IN extracted.products[i].link =
              IF hrefs = <<>> THEN "null" ELSE hrefs[1]

\* C16 witness: page.evaluate has returned on a page with a card without
\* any anchor and a card with several, the first of them without an href.
C16_Witness ==
  /\ extracted.ran
  /\ \E i, j \in 1..Len(extracted.cards) :
       /\ extracted.cards[i] = <<>>
       /\ Len(extracted.cards[j]) > 1
       /\ extracted.cards[j][1] = NoValue
       /\ extracted.products[i].link = "null"
       /\ extracted.products[j].link = Product1

\* C17: each classifier is an any-match over its own pattern list alone:
\* for a list of regular expressions, isListingUrl and isProductUrl answer
\* true exactly when some pattern of their list matches the URL and false
\* otherwise, so an empty list matches nothing and neither answer depends
\* on the other list; and the transform returns a request only for a URL
\* that some listing pattern matches.
C17_ClassificationAnyMatch ==
  \A u \in NormUrls :
    /\ AllValid(config.productListingUrlPatterns) =>
         isListingUrl(u, config.productListingUrlPatterns) =
           IF AnyMatch(u, config.productListingUrlPatterns) THEN "true" ELSE "false"
    /\ AllValid(config.productUrlPatterns) =>
         isProductUrl(u, config.productUrlPatterns) =
           IF AnyMatch(u, config.productUrlPatterns) THEN "true" ELSE "false"
    /\ claimLog[u].returned > 0 => AnyMatch(u, config.productListingUrlPatterns)

\* C17 witness: one configuration under which the four combinations of
\* listing and product answers all occur, and the transform has returned
\* the request of a URL that is both listing and product.
C17_Witness ==
  LET L(u) == isListingUrl(u, config.productListingUrlPatterns)
      D(u) == isProductUrl(u, config.productUrlPatterns)
  IN /\ \E u \in NormUrls : L(u) = "true" /\ D(u) = "true" /\ claimLog[u].returned = 1
     /\ \E u \in NormUrls : L(u) = "true" /\ D(u) = "false" /\ claimLog[u].returned = 1
     /\ \E u \in NormUrls : L(u) = "false" /\ D(u) = "true"
     /\ \E u \in NormUrls : L(u) = "false" /\ D(u) = "false"

\* C18: link expansion is one hop deep: every request a handler hands to
\* the engine carries the "detail" label and was found on a seed page, the
\* listing handler only ever runs on unlabeled seed requests, and every
\* request waiting in the queue is an unlabeled seed or a "detail" request.
C18_OneHopExpansion ==
  /\ \A i \in 1..Len(enqueuedLog) :
       enqueuedLog[i].from # "run" =>
         /\ enqueuedLog[i].label = "detail"
         /\ enqueuedLog[i].from \in Range(config.startUrls)
  /\ \A t \in running :
       t.req.label = "default" /\ t.req.url \in Range(config.startUrls)
  /\ \A req \in queue :
       \/ req.label = "detail"
       \/ req.label = "default" /\ req.url \in Range(config.startUrls)

\* C18 witness: a page discovered on a seed page has been processed by the
\* detail handler and the run has returned.
C18_Witness ==
  /\ pc = "returned"
  /\ extracted.ran
  /\ \E u \in NormUrls : HandlerEntries(u) # {} /\ u \notin Range(config.startUrls)

\* C19: the visited set is exactly the set of normalized URLs whose request
\* the transform has returned: every member was matched by some listing
\* pattern, every URL a handler holds or has handed over is a member, and
\* a URL the classifier rejected is not.
C19_VisitedIsExactlyReturned ==
  /\ processedUrls = { u \in NormUrls : claimLog[u].returned > 0 }
  /\ \A u \in processedUrls : AnyMatch(u, config.productListingUrlPatterns)
  /\ HandlerUrls \subseteq processedUrls
  /\ \A u \in NormUrls :
       isListingUrl(u, config.productListingUrlPatterns) = "false" =>
         u \notin processedUrls

\* C19 witness: a handler has had the request of one link returned and
\* another link rejected by the classifier (none of its links was skipped
\* as already processed), and the set holds the first URL only.
C19_Witness ==
  \E t \in running :
    /\ Len(t.batch) = 1
    /\ t.n > 1
    /\ \A u \in NormUrls : t.req.url \notin claimLog[u].skippedOn
    /\ processedUrls = Range(t.batch)
====
